---- MODULE Spec2Model ----
(***************************************************************************)
(* A model of the ELF object reader (src/elf.cc) and of the vtable scanner *)
(* "canal" (src/unnamed/part_000).                                         *)
(*                                                                         *)
(* ELF indices are 0-based in the code; the tables below are sequences, so *)
(* entry i of the code is element i + 1 of the sequence.                   *)
(***************************************************************************)
EXTENDS Integers, Sequences, FiniteSets, TLC

VARIABLES
    io,               \* content of the Reader the ElfObject is built over
    debugfs,          \* what the debug prefix holds for the image's debug link
    elf,              \* "new" before the constructor ran, then "object" or "NotElf"
    programHeaders,   \* ElfObject::programHeaders
    sectionHeaders,   \* ElfObject::sectionHeaders
    namedSection,     \* ElfObject::namedSection: name -> ELF section index
    hash,             \* ElfObject::hash: TRUE when an ElfSymHash was built
    last,             \* the last call on the ElfObject and what it returned
    pc,               \* canal: position in main / mainExcept
    args,             \* canal: argv still to be read (options, then positionals)
    opt,              \* canal: findRef, minval, maxval, showaddrs, virtpatterns
    listed,           \* canal: vector<ListedSymbol> listed
    seg,              \* canal: the header of core->getSegments() being scanned
    cur,              \* canal: process, segments seen, loc, i and the word p read
    out,              \* canal: lines the last step wrote to cout
    status            \* canal: "running", an exit status, or a fatal signal

elfVars == <<io, debugfs, elf, programHeaders, sectionHeaders, namedSection, hash, last>>
canalVars == <<pc, args, opt, listed, seg, cur, out, status>>
vars == <<io, debugfs, elf, programHeaders, sectionHeaders, namedSection, hash, last,
          pc, args, opt, listed, seg, cur, out, status>>

(***************************************************************************)
(* Bounds of the model.                                                    *)
(***************************************************************************)
\* Addresses are 0 .. AddrSpace - 1 and Elf_Off / Elf_Addr arithmetic is
\* modulo AddrSpace (the code's is modulo 2^64).
AddrSpace == 2
\* Most program headers of an image.
MaxPhdrs == 2
\* Most symbols, beyond the null symbol of index 0, that .symtab and .dynsym
\* of a generated image hold together.
MaxSyms == 2
\* Most buckets of a generated .hash section.
MaxBuckets == 2
\* canal: most options on the command line.
MaxOpts == 2
\* canal: most program headers of the core.
MaxSegs == 2
\* canal: pointer-sized words in a page (getpagesize() / sizeof (void *)).
PageWords == 2
\* canal: the words of the core hold 0 .. MaxWord.
MaxWord == 4
\* canal: st_value and st_size of the symbols of the loaded object are at
\* most these.
MaxSymValue == 2
MaxSymSize == 1
\* canal: longest generated pattern and name of a globmatch call.
MaxPat == 3
MaxName == 3

Addr == 0 .. (AddrSpace - 1)
\* std::numeric_limits<Elf_Off>::max()
MaxOff == AddrSpace - 1

\* Sequences over S of length at most n.
SeqUpTo(S, n) == UNION {[1..k -> S] : k \in 0..n}

Range(s) == {s[i] : i \in DOMAIN s}

\* "No call yet" / a call record.  The lookups leave the object as it is,
\* so a run makes one call: Ready guards every lookup.
NoCall == [op |-> "none"]

(***************************************************************************)
(* Reader content.                                                         *)
(*   ident.magic    IS_ELF(elfHeader)                                      *)
(*   ident.version  elfHeader.e_ident[EI_VERSION] == EV_CURRENT            *)
(*   phdrs, shdrs   the records at e_phoff / e_shoff (e_phnum, e_shnum of  *)
(*                  them)                                                  *)
(*   shstrndx       e_shstrndx (0 is SHN_UNDEF)                            *)
(* A section header carries its name (the string at sh_name in the section *)
(* name table) and its content (the bytes at sh_offset, already decoded).  *)
(***************************************************************************)
Shdr(name, type, alloc, link, data) ==
    [name |-> name, sh_type |-> type, alloc |-> alloc, sh_link |-> link, data |-> data]

NullShdr == Shdr("", "SHT_NULL", FALSE, 0, <<>>)
TextShdr == Shdr(".text", "SHT_PROGBITS", TRUE, 0, <<>>)
CommentShdr == Shdr(".comment", "SHT_PROGBITS", FALSE, 0, <<>>)
ShstrtabShdr == Shdr(".shstrtab", "SHT_STRTAB", FALSE, 0, <<>>)

\* Sections every generated image starts with: ELF indices 0, 1, 2, 3.
BaseShdrs == <<NullShdr, TextShdr, CommentShdr, ShstrtabShdr>>
ShstrtabIndex == Len(BaseShdrs) - 1

Phdr(type, vaddr, memsz) == [p_type |-> type, p_vaddr |-> vaddr, p_memsz |-> memsz]

PhdrSet == {Phdr(t, v, m) : t \in {"PT_LOAD", "PT_NOTE"}, v \in Addr, m \in Addr}

NoDebugFile == [present |-> FALSE, shdrs |-> <<>>]

(***************************************************************************)
(* ElfObject::getDebug (elf.cc 277-306).  The first statement of the body  *)
(* is "return 0": the companion is never opened.                           *)
(***************************************************************************)
NoObject == [present |-> FALSE, shdrs |-> <<>>]

getDebug == NoObject

\* The name map of a section list as init() builds it: later headers of the
\* same name overwrite earlier ones.  Value: ELF index.
NameMap(shdrs) ==
    [n \in {shdrs[i].name : i \in DOMAIN shdrs} |->
        (CHOOSE i \in DOMAIN shdrs :
            /\ shdrs[i].name = n
            /\ \A j \in DOMAIN shdrs : shdrs[j].name = n => j <= i) - 1]

NoSection == [found |-> FALSE, owner |-> "none", shndx |-> 0]

\* The lookup in a name map (elf.cc 172-173).
LocalSection(owner, shdrs, map, name, type) ==
    IF name \in DOMAIN map
       /\ (shdrs[map[name] + 1].sh_type = type \/ type = "SHT_NULL")
    THEN [found |-> TRUE, owner |-> owner, shndx |-> map[name]]
    ELSE NoSection

\* ElfObject::getSection (elf.cc 162-174) on an object with the given
\* section headers and name map.  The companion's own getSection goes
\* through the companion's getDebug, which is none as well.
SectionOf(shdrs, map, name, type) ==
    LET dbg == getDebug
        debugSection == IF dbg.present
                        THEN LocalSection("debug", dbg.shdrs, NameMap(dbg.shdrs), name, type)
                        ELSE NoSection
    IN  IF dbg.present /\ debugSection.found
        THEN debugSection
        ELSE LocalSection("image", shdrs, map, name, type)

getSection(name, type) == SectionOf(sectionHeaders, namedSection, name, type)

\* The header a found section refers to.
HeaderOf(s) == sectionHeaders[s.shndx + 1]

Ready == elf = "object" /\ last = NoCall

(***************************************************************************)
(* ElfObject::init (elf.cc 57-94).  The header validation is guarded by    *)
(* "false &&", so no content is ever rejected.                             *)
(***************************************************************************)
HeaderRejected(ident) == FALSE /\ (~ident.magic \/ ~ident.version)

Construct ==
    /\ elf = "new"
    /\ IF HeaderRejected(io.ident)
       THEN /\ elf' = "NotElf"
            /\ UNCHANGED <<programHeaders, sectionHeaders, namedSection, hash>>
       ELSE /\ elf' = "object"
            /\ programHeaders' = io.phdrs
            /\ sectionHeaders' = io.shdrs
            /\ IF io.shstrndx # 0
               THEN /\ namedSection' = NameMap(io.shdrs)
                    /\ hash' = SectionOf(io.shdrs, NameMap(io.shdrs), ".hash", "SHT_HASH").found
               ELSE /\ namedSection' = << >>
                    /\ hash' = FALSE
    /\ UNCHANGED <<io, debugfs, last>>
    /\ UNCHANGED canalVars

\* A bound check that lets the segment's end address itself through.
HeaderCoversInclusive(hdr, a) ==
    /\ hdr.p_vaddr <= a
    /\ (hdr.p_vaddr + hdr.p_memsz) % AddrSpace >= a
    /\ hdr.p_type = "PT_LOAD"

(***************************************************************************)
(* ElfObject::findHeaderForAddress (elf.cc 17-24): the ELF index + 1 of    *)
(* the first matching program header, 0 for none.                          *)
(***************************************************************************)
HeaderCovers(hdr, a) ==
    /\ hdr.p_vaddr <= a
    /\ (hdr.p_vaddr + hdr.p_memsz) % AddrSpace > a
    /\ hdr.p_type = "PT_LOAD"

findHeaderForAddress(a) ==
    LET hits == {i \in DOMAIN programHeaders : HeaderCovers(programHeaders[i], a)}
    IN  IF hits = {} THEN 0 ELSE CHOOSE i \in hits : \A j \in hits : i <= j

(***************************************************************************)
(* ElfObject::getBase (elf.cc 38-46).                                      *)
(***************************************************************************)
RECURSIVE BaseFrom(_, _)
BaseFrom(i, base) ==
    IF i > Len(programHeaders) THEN base
    ELSE IF programHeaders[i].p_type = "PT_LOAD" /\ programHeaders[i].p_vaddr <= base
         THEN BaseFrom(i + 1, programHeaders[i].p_vaddr)
         ELSE BaseFrom(i + 1, base)

getBase == BaseFrom(1, MaxOff)

CallFindHeaderForAddress ==
    /\ Ready
    /\ \E a \in Addr :
          last' = [op |-> "findHeaderForAddress", a |-> a, ret |-> findHeaderForAddress(a)]
    /\ UNCHANGED <<io, debugfs, elf, programHeaders, sectionHeaders, namedSection, hash>>
    /\ UNCHANGED canalVars

CallFindHeaderForBase ==
    /\ Ready
    /\ last' = [op |-> "findHeaderForBase", a |-> getBase, ret |-> findHeaderForAddress(getBase)]
    /\ UNCHANGED <<io, debugfs, elf, programHeaders, sectionHeaders, namedSection, hash>>
    /\ UNCHANGED canalVars

(***************************************************************************)
(* Images for the header operations: any identification bytes, any list of *)
(* program headers, no sections beyond the fixed ones.                     *)
(***************************************************************************)
IdentSet == [magic : BOOLEAN, version : BOOLEAN]

Image(ident, phdrs, shdrs, shstrndx) ==
    [ident |-> ident, phdrs |-> phdrs, shdrs |-> shdrs, shstrndx |-> shstrndx]

CanalIdle ==
    /\ pc = "idle"
    /\ args = <<>>
    /\ opt = <<>>
    /\ listed = <<>>
    /\ seg = <<>>
    /\ cur = <<>>
    /\ out = <<>>
    /\ status = "none"

ElfFresh ==
    /\ debugfs = NoDebugFile
    /\ elf = "new"
    /\ programHeaders = <<>>
    /\ sectionHeaders = <<>>
    /\ namedSection = <<>>
    /\ hash = FALSE
    /\ last = NoCall

HdrImages ==
    {Image(id, ph, BaseShdrs, ss) :
        id \in IdentSet, ph \in SeqUpTo(PhdrSet, MaxPhdrs), ss \in {ShstrtabIndex}}

InitHdr ==
    /\ io \in HdrImages
    /\ ElfFresh
    /\ CanalIdle

NextHdr == Construct \/ CallFindHeaderForAddress \/ CallFindHeaderForBase

SpecHdr == InitHdr /\ [][NextHdr]_vars

(***************************************************************************)
(* C2 (as stated).  For every parsed image, findHeaderForAddress(getBase())*)
(* returns a segment rather than none.                                     *)
(***************************************************************************)
C2_BaseAlwaysCovered ==
    (last.op = "findHeaderForBase" /\ io.ident.magic /\ io.ident.version) => last.ret # 0

\* The PT_LOAD headers of lowest p_vaddr whose range [p_vaddr, p_vaddr +
\* p_memsz) is not empty and ends at or below the highest address.
LowestLoadsCoveringBase ==
    LET loads == {i \in DOMAIN programHeaders : programHeaders[i].p_type = "PT_LOAD"}
    IN  {i \in loads :
            /\ \A j \in loads : programHeaders[i].p_vaddr <= programHeaders[j].p_vaddr
            /\ programHeaders[i].p_memsz > 0
            /\ programHeaders[i].p_vaddr + programHeaders[i].p_memsz <= MaxOff}

(***************************************************************************)
(* C2 (amended).  findHeaderForAddress(getBase()) returns a segment exactly*)
(* when some PT_LOAD segment of lowest p_vaddr has p_memsz > 0 and an end  *)
(* p_vaddr + p_memsz that does not pass the highest address; it then       *)
(* returns the first such segment, and none otherwise (no PT_LOAD segment, *)
(* p_memsz = 0, or a wrapping end).                                        *)
(***************************************************************************)
C2_BaseCoveredWhenLowestLoadNonEmpty ==
    last.op = "findHeaderForBase" =>
        IF LowestLoadsCoveringBase = {}
        THEN last.ret = 0
        ELSE /\ last.ret \in LowestLoadsCoveringBase
             /\ \A j \in LowestLoadsCoveringBase : last.ret <= j
             /\ programHeaders[last.ret].p_vaddr = last.a

\* The base of an image with two PT_LOAD segments is found in the second
\* one: the first lies higher.
C2_Witness ==
    /\ last.op = "findHeaderForBase"
    /\ last.ret = 2
    /\ programHeaders[1].p_type = "PT_LOAD"
    /\ programHeaders[1].p_vaddr > programHeaders[2].p_vaddr

(***************************************************************************)
(* C4.  Content without the ELF magic, or with EI_VERSION other than       *)
(* EV_CURRENT, is rejected with NotElf before any program or section       *)
(* header is read, and no ElfObject is produced for it.                    *)
(***************************************************************************)
C4_NotElfRejected ==
    (elf # "new" /\ ~(io.ident.magic /\ io.ident.version)) =>
        /\ elf = "NotElf"
        /\ programHeaders = <<>>
        /\ sectionHeaders = <<>>

(***************************************************************************)
(* Symbols.  st_name holds the name itself (the string the code reads at   *)
(* st_name in the linked string table), as a sequence of character codes;  *)
(* st_type is ELF_ST_TYPE(st_info).                                        *)
(***************************************************************************)
Sym(name, value, size, type, shndx) ==
    [st_name |-> name, st_value |-> value, st_size |-> size, st_type |-> type,
     st_shndx |-> shndx]

\* Entry 0 of every symbol table.
NullSym == Sym(<<>>, 0, 0, "STT_NOTYPE", 0)

NoSym == [st_name |-> <<>>, st_value |-> 0, st_size |-> 0, st_type |-> "none", st_shndx |-> 0]

\* SymbolSection over a found section: its (entry, name) pairs in table order.
SymbolsOf(s) == HeaderOf(s).data

\* A containment test that also takes the symbol's end address.
SymbolContainsInclusive(candidate, addr) ==
    (candidate.st_size + candidate.st_value) % AddrSpace >= addr

\* elf.cc 141: candidate.st_size + candidate.st_value > addr.
SymbolContains(candidate, addr) ==
    (candidate.st_size + candidate.st_value) % AddrSpace > addr

\* elf.cc 130-138: what the loop skips before it looks at the size.
Qualifies(candidate, addr, type) ==
    /\ candidate.st_shndx < Len(sectionHeaders)
    /\ sectionHeaders[candidate.st_shndx + 1].alloc
    /\ (type = "STT_NOTYPE" \/ candidate.st_type = type)
    /\ candidate.st_value <= addr

\* A fallback rule that also keeps a size-zero candidate of address 0.
KeepsStubFromZero(st, candidate) ==
    ~st.kept \/ st.lowest < candidate.st_value

\* elf.cc 147: "lowest < candidate.st_value", with lowest starting at 0.
KeepsStub(st, candidate) == st.lowest < candidate.st_value

\* elf.cc 128-157: the loop over one table from entry i on.  st is
\* [done, kept, lowest, sym]: done after "return true", kept once the
\* fallback branch assigned sym.
RECURSIVE ScanSymbols(_, _, _, _, _)
ScanSymbols(syms, i, addr, type, st) ==
    IF i > Len(syms) THEN st
    ELSE LET candidate == syms[i]
         IN  IF ~Qualifies(candidate, addr, type)
             THEN ScanSymbols(syms, i + 1, addr, type, st)
             ELSE IF candidate.st_size # 0
             THEN IF SymbolContains(candidate, addr)
                  THEN [done |-> TRUE, kept |-> st.kept, lowest |-> st.lowest, sym |-> candidate]
                  ELSE ScanSymbols(syms, i + 1, addr, type, st)
             ELSE IF KeepsStub(st, candidate)
             THEN ScanSymbols(syms, i + 1, addr, type,
                      [done |-> FALSE, kept |-> TRUE, lowest |-> candidate.st_value,
                       sym |-> candidate])
             ELSE ScanSymbols(syms, i + 1, addr, type, st)

\* The tables in the opposite order.
sectionNamesDynsymFirst == <<".dynsym", ".symtab">>

\* elf.cc 118-120: the tables the address lookup reads, in this order.
sectionNames == <<".symtab", ".dynsym">>

\* elf.cc 123-158: the loop over the tables.
RECURSIVE ScanTables(_, _, _, _)
ScanTables(names, addr, type, st) ==
    IF names = <<>> \/ st.done THEN st
    ELSE LET symSection == getSection(Head(names), "SHT_NULL")
         IN  IF ~symSection.found \/ HeaderOf(symSection).sh_type = "SHT_NOBITS"
             THEN ScanTables(Tail(names), addr, type, st)
             ELSE ScanTables(Tail(names), addr, type,
                      ScanSymbols(SymbolsOf(symSection), 1, addr, type, st))

\* elf.cc 159: "return lowest != 0".
FoundStub(st) == st.lowest # 0

\* ElfObject::findSymbolByAddress (elf.cc 114-160): the value returned and
\* the symbol left in the out-parameters.
findSymbolByAddress(addr, type) ==
    LET st == ScanTables(sectionNames, addr, type,
                  [done |-> FALSE, kept |-> FALSE, lowest |-> 0, sym |-> NoSym])
    IN  IF st.done
        THEN [ret |-> TRUE, sym |-> st.sym]
        ELSE [ret |-> FoundStub(st), sym |-> st.sym]

SymTypes == {"STT_NOTYPE", "STT_FUNC"}

CallFindSymbolByAddress ==
    /\ Ready
    /\ \E addr \in Addr, type \in SymTypes :
          last' = [op |-> "findSymbolByAddress", addr |-> addr, type |-> type,
                   res |-> findSymbolByAddress(addr, type)]
    /\ UNCHANGED <<io, debugfs, elf, programHeaders, sectionHeaders, namedSection, hash>>
    /\ UNCHANGED canalVars

(***************************************************************************)
(* Images for the address lookup.  Sections 1 (.text) is allocated, 2      *)
(* (.comment) is not, and ShnAbs is beyond every section table of the      *)
(* model (SHN_ABS).  A symbol's name tells its table and its position.     *)
(***************************************************************************)
ShnAbs == 65521

\* Type and section of a generated symbol: a function or an untyped symbol
\* of .text, or a function that is skipped: one of the unallocated section
\* in .symtab, an absolute one in .dynsym.
SymKinds(letter) ==
    {<<"STT_FUNC", 1>>, <<"STT_NOTYPE", 1>>,
     IF letter = 115 THEN <<"STT_FUNC", 2>> ELSE <<"STT_FUNC", ShnAbs>>}

\* Symbol bodies: value, size, kind.
SymBodies(letter) == Addr \X Addr \X SymKinds(letter)

\* 115 = 's', 100 = 'd', 48 = '0'.
TableOf(letter, bodies) ==
    <<NullSym>> \o
    [i \in DOMAIN bodies |->
        Sym(<<letter, 48 + i>>, bodies[i][1], bodies[i][2], bodies[i][3][1], bodies[i][3][2])]

SymtabShdr(type, syms) == Shdr(".symtab", type, FALSE, 0, syms)
DynsymShdr(type, syms) == Shdr(".dynsym", type, TRUE, 0, syms)

ValidIdent == [magic |-> TRUE, version |-> TRUE]

\* The bodies of the symbols of .symtab and of .dynsym: at most MaxSyms in all.
SymTablePairs ==
    UNION {[1..a -> SymBodies(115)] \X [1..b -> SymBodies(100)] :
              <<a, b>> \in {ab \in (0..MaxSyms) \X (0..MaxSyms) : ab[1] + ab[2] <= MaxSyms}}

AddrImages ==
    {Image(ValidIdent, <<>>,
           BaseShdrs \o <<SymtabShdr("SHT_SYMTAB", TableOf(115, t[1])),
                          DynsymShdr("SHT_DYNSYM", TableOf(100, t[2]))>>,
           ShstrtabIndex) :
        t \in SymTablePairs}

\* Images without a .symtab, and images whose .symtab is SHT_NOBITS (as in
\* a file that holds only debug information): the bytes read at its offset
\* are not its symbols.
NoSymtabImages ==
    {Image(ValidIdent, <<>>, BaseShdrs \o <<DynsymShdr("SHT_DYNSYM", TableOf(100, dy))>>,
           ShstrtabIndex) :
        dy \in SeqUpTo(SymBodies(100), 1)}
    \cup
    {Image(ValidIdent, <<>>,
           BaseShdrs \o <<SymtabShdr("SHT_NOBITS", TableOf(115, st)),
                          DynsymShdr("SHT_DYNSYM", TableOf(100, dy))>>,
           ShstrtabIndex) :
        st \in [1..1 -> SymBodies(115)], dy \in SeqUpTo(SymBodies(100), 1)}

InitAddr ==
    /\ io \in AddrImages \cup NoSymtabImages
    /\ ElfFresh
    /\ CanalIdle

NextAddr == Construct \/ CallFindSymbolByAddress

SpecAddr == InitAddr /\ [][NextAddr]_vars

(***************************************************************************)
(* What the claims about the address lookup speak of.                      *)
(***************************************************************************)
\* The entries of a table of the image: none when the image has no section
\* of that name or the section is SHT_NOBITS.
TableEntries(name) ==
    IF name \in DOMAIN namedSection
       /\ sectionHeaders[namedSection[name] + 1].sh_type # "SHT_NOBITS"
    THEN sectionHeaders[namedSection[name] + 1].data
    ELSE <<>>

\* .symtab's entries, then .dynsym's.
Entries == TableEntries(".symtab") \o TableEntries(".dynsym")

InAllocSection(s) ==
    /\ s.st_shndx < Len(sectionHeaders)
    /\ sectionHeaders[s.st_shndx + 1].alloc

TypeMatches(s, type) == type = "STT_NOTYPE" \/ s.st_type = type

\* addr lies in [st_value, st_value + st_size), a range that ends at or
\* below the highest address.
InRange(s, addr) ==
    /\ s.st_value <= addr
    /\ addr < s.st_value + s.st_size
    /\ s.st_value + s.st_size <= MaxOff

\* Positions in Entries of the sized, allocated symbols of a matching type
\* whose range contains addr.
SizedHits(addr, type) ==
    {i \in DOMAIN Entries :
        /\ Entries[i].st_size > 0
        /\ InAllocSection(Entries[i])
        /\ TypeMatches(Entries[i], type)
        /\ InRange(Entries[i], addr)}

\* Positions in Entries of the qualifying size-zero candidates.
Stubs(addr, type) ==
    {i \in DOMAIN Entries :
        /\ Entries[i].st_size = 0
        /\ InAllocSection(Entries[i])
        /\ TypeMatches(Entries[i], type)
        /\ Entries[i].st_value <= addr}

(***************************************************************************)
(* C1 (as stated).  For every sized symbol s of .symtab or .dynsym in an   *)
(* allocated section and every 0 <= k < st_size, the lookup of             *)
(* st_value + k with the type of s returns true and yields s itself,       *)
(* whatever else the tables hold.  (Stated for the symbols whose range     *)
(* ends at or below the highest address: it fails for these already.)      *)
(***************************************************************************)
C1_SizedSymbolYieldsItself ==
    last.op = "findSymbolByAddress" =>
        \A i \in DOMAIN Entries :
            LET s == Entries[i]
            IN  (/\ s.st_size > 0
                 /\ InAllocSection(s)
                 /\ last.type = s.st_type
                 /\ s.st_value + s.st_size <= MaxOff
                 /\ \E k \in 0 .. (s.st_size - 1) : last.addr = s.st_value + k)
                => (last.res.ret /\ last.res.sym = s)

(***************************************************************************)
(* C1 (amended).  When some sized symbol in an allocated section, of the   *)
(* requested type (any type for STT_NOTYPE), has a range [st_value,        *)
(* st_value + st_size) that ends at or below the highest address and       *)
(* contains addr, the lookup returns true and yields the first such symbol *)
(* in table order, .symtab before .dynsym: a symbol s is yielded for       *)
(* st_value + k when no such symbol precedes it.                           *)
(***************************************************************************)
C1_FirstContainingSymbolYielded ==
    last.op = "findSymbolByAddress" =>
        LET hits == SizedHits(last.addr, last.type)
        IN  hits # {} =>
                /\ last.res.ret
                /\ \E i \in hits :
                      /\ \A j \in hits : i <= j
                      /\ last.res.sym = Entries[i]

\* Two sized symbols contain the address, one in each table, and the lookup
\* yields the one of .symtab.
C1_Witness ==
    /\ last.op = "findSymbolByAddress"
    /\ Cardinality(SizedHits(last.addr, last.type)) >= 2
    /\ last.res.ret
    /\ last.res.sym \in Range(TableEntries(".symtab"))
    /\ \E i \in SizedHits(last.addr, last.type) :
          Entries[i] \in Range(TableEntries(".dynsym"))

(***************************************************************************)
(* C7.  When no sized symbol contains addr, the lookup returns true and    *)
(* yields the qualifying size-zero candidate of highest st_value whenever  *)
(* one exists, st_value = 0 included, and false only when none exists; a   *)
(* size-zero candidate is never yielded when a sized symbol contains addr. *)
(***************************************************************************)
C7_StubFallback ==
    last.op = "findSymbolByAddress" =>
        LET hits == SizedHits(last.addr, last.type)
            stubs == Stubs(last.addr, last.type)
        IN  /\ (hits = {} /\ stubs # {}) =>
                    /\ last.res.ret
                    /\ \E i \in stubs :
                          /\ last.res.sym = Entries[i]
                          /\ \A j \in stubs : Entries[j].st_value <= Entries[i].st_value
            /\ (hits = {} /\ ~last.res.ret) => stubs = {}
            /\ hits # {} => ~(last.res.ret /\ last.res.sym.st_size = 0)

(***************************************************************************)
(* elf_hash (elf.cc 311-322) on uint32_t.  A word is kept as its two       *)
(* 16-bit halves [hi, lo].                                                 *)
(***************************************************************************)
Half == 65536

\* Bitwise exclusive or of two numbers below 2^n.
RECURSIVE BitXor(_, _, _)
BitXor(a, b, n) ==
    IF n = 0 THEN 0
    ELSE (((a % 2) + (b % 2)) % 2) + 2 * BitXor(a \div 2, b \div 2, n - 1)

\* h = (h << 4) + c
ShiftAdd(h, c) ==
    LET lo16 == h.lo * 16 + c
        hi16 == h.hi * 16 + (lo16 \div Half)
    IN  [hi |-> hi16 % Half, lo |-> lo16 % Half]

\* g = h & 0xf0000000, as the nibble's value.
TopNibble(h) == h.hi \div 4096

\* if (g != 0) h ^= g >> 24;  h &= ~g
Fold(h) ==
    LET g == TopNibble(h)
        x == IF g # 0 THEN [hi |-> h.hi, lo |-> BitXor(h.lo, g * 16, 16)] ELSE h
    IN  [hi |-> x.hi % 4096, lo |-> x.lo]

RECURSIVE HashFrom(_, _, _)
HashFrom(name, i, h) ==
    IF i > Len(name) THEN h
    ELSE HashFrom(name, i + 1, Fold(ShiftAdd(h, name[i])))

elf_hash(name) ==
    LET h == HashFrom(name, 1, [hi |-> 0, lo |-> 0])
    IN  h.hi * Half + h.lo

(***************************************************************************)
(* ElfSymHash (elf.cc 195-225).  The .hash section's content is            *)
(* [nbucket, nchain, buckets, chains]; bucket b is buckets[b + 1] and      *)
(* chains[i] is chains[i + 1].  syms is the section sh_link names.         *)
(***************************************************************************)
HashSection == HeaderOf(getSection(".hash", "SHT_HASH"))

HashSyms == sectionHeaders[HashSection.sh_link + 1].data

\* A walk that gives up after the head of the chain.
RECURSIVE WalkChainHeadOnly(_, _, _)
WalkChainHeadOnly(tab, i, name) ==
    IF i = 0 THEN [ret |-> FALSE, sym |-> NoSym]
    ELSE IF HashSyms[i + 1].st_name = name
         THEN [ret |-> TRUE, sym |-> HashSyms[i + 1]]
         ELSE [ret |-> FALSE, sym |-> NoSym]

\* elf.cc 214-223: the chain from symbol index i on (STN_UNDEF = 0 ends it).
RECURSIVE WalkChain(_, _, _)
WalkChain(tab, i, name) ==
    IF i = 0 THEN [ret |-> FALSE, sym |-> NoSym]
    ELSE IF HashSyms[i + 1].st_name = name
         THEN [ret |-> TRUE, sym |-> HashSyms[i + 1]]
         ELSE WalkChain(tab, tab.chains[i + 1], name)

\* ElfSymHash::findSymbol (elf.cc 210-225).
hashFindSymbol(name) ==
    LET tab == HashSection.data
        bucket == elf_hash(name) % tab.nbucket
    IN  WalkChain(tab, tab.buckets[bucket + 1], name)

\* linearSymSearch (elf.cc 182-193) over the entries of a section.
RECURSIVE LinearFrom(_, _, _)
LinearFrom(syms, i, name) ==
    IF i > Len(syms) THEN [ret |-> FALSE, sym |-> NoSym]
    ELSE IF name = syms[i].st_name
         THEN [ret |-> TRUE, sym |-> syms[i]]
         ELSE LinearFrom(syms, i + 1, name)

linearSymSearch(section, name) == LinearFrom(SymbolsOf(section), 1, name)

\* A lookup that never reads .symtab.
findSymbolByNameDynsymOnly(name) ==
    LET dyn == getSection(".dynsym", "SHT_DYNSYM")
    IN  IF hash /\ hashFindSymbol(name).ret THEN hashFindSymbol(name)
        ELSE IF dyn.found /\ linearSymSearch(dyn, name).ret THEN linearSymSearch(dyn, name)
        ELSE [ret |-> FALSE, sym |-> NoSym]

\* ElfObject::findSymbolByName (elf.cc 230-242).
findSymbolByName(name) ==
    LET dyn == getSection(".dynsym", "SHT_DYNSYM")
        symtab == getSection(".symtab", "SHT_SYMTAB")
    IN  IF hash /\ hashFindSymbol(name).ret THEN hashFindSymbol(name)
        ELSE IF dyn.found /\ linearSymSearch(dyn, name).ret THEN linearSymSearch(dyn, name)
        ELSE IF symtab.found /\ linearSymSearch(symtab, name).ret
             THEN linearSymSearch(symtab, name)
        ELSE [ret |-> FALSE, sym |-> NoSym]

\* Symbol names of the generated images: "", "a", "b" and a name long
\* enough for elf_hash to fold its top nibble ("zzzzzzzz").
NameSet == {<<>>, <<97>>, <<98>>, <<122, 122, 122, 122, 122, 122, 122, 122>>}

CallHashFindSymbol ==
    /\ Ready
    /\ hash
    /\ \E name \in NameSet :
          last' = [op |-> "hashFindSymbol", name |-> name, res |-> hashFindSymbol(name)]
    /\ UNCHANGED <<io, debugfs, elf, programHeaders, sectionHeaders, namedSection, hash>>
    /\ UNCHANGED canalVars

CallLinearSymSearch ==
    /\ Ready
    /\ \E table \in {getSection(".dynsym", "SHT_DYNSYM"), getSection(".symtab", "SHT_SYMTAB")} :
          /\ table.found
          /\ \E name \in NameSet :
                last' = [op |-> "linearSymSearch", table |-> HeaderOf(table).name,
                         name |-> name, res |-> linearSymSearch(table, name)]
    /\ UNCHANGED <<io, debugfs, elf, programHeaders, sectionHeaders, namedSection, hash>>
    /\ UNCHANGED canalVars

CallFindSymbolByName ==
    /\ Ready
    /\ \E name \in NameSet :
          last' = [op |-> "findSymbolByName", name |-> name, res |-> findSymbolByName(name)]
    /\ UNCHANGED <<io, debugfs, elf, programHeaders, sectionHeaders, namedSection, hash>>
    /\ UNCHANGED canalVars

(***************************************************************************)
(* Images for the lookups by name.  Entry i of a table is a function of    *)
(* .text whose st_value and st_size tell its position, so that two entries *)
(* of one name differ; .symtab's entries are objects.  The .hash section   *)
(* is one a linker writes: every entry of .dynsym but the null entry is on *)
(* the chain of bucket elf_hash(name) % nbucket, in any order.             *)
(***************************************************************************)
NamedTable(type, names) ==
    <<NullSym>> \o
    [i \in DOMAIN names |-> Sym(names[i], i % AddrSpace, i \div AddrSpace, type, 1)]

Perms(n) == {f \in [1..n -> 1..n] : \A i, j \in 1..n : f[i] = f[j] => i = j}

\* The symbol indices of bucket b, in the order the linker chained them.
RECURSIVE ChainOf(_, _, _, _, _)
ChainOf(names, order, nbucket, b, k) ==
    IF k > Len(order) THEN <<>>
    ELSE IF elf_hash(names[order[k]]) % nbucket = b
         THEN <<order[k]>> \o ChainOf(names, order, nbucket, b, k + 1)
         ELSE ChainOf(names, order, nbucket, b, k + 1)

\* What follows symbol index i on its chain (0 at the end).
NextOnChain(chain, i) ==
    LET pos == CHOOSE k \in DOMAIN chain : chain[k] = i
    IN  IF pos = Len(chain) THEN 0 ELSE chain[pos + 1]

HashTable(names, order, nbucket) ==
    [nbucket |-> nbucket,
     nchain |-> Len(names) + 1,
     buckets |-> [b1 \in 1..nbucket |->
                    LET chain == ChainOf(names, order, nbucket, b1 - 1, 1)
                    IN  IF chain = <<>> THEN 0 ELSE chain[1]],
     chains |-> [i1 \in 1..(Len(names) + 1) |->
                    IF i1 = 1 THEN 0
                    ELSE NextOnChain(
                             ChainOf(names, order, nbucket,
                                     elf_hash(names[i1 - 1]) % nbucket, 1),
                             i1 - 1)]]

\* ELF index of .dynsym in the images below.
DynsymIndex == Len(BaseShdrs)

HashShdr(tab) == Shdr(".hash", "SHT_HASH", TRUE, DynsymIndex, tab)

\* The names of the symbols of .dynsym and of .symtab: at most MaxSyms in all.
NameTablePairs ==
    UNION {[1..a -> NameSet] \X [1..b -> NameSet] :
              <<a, b>> \in {ab \in (0..MaxSyms) \X (0..MaxSyms) : ab[1] + ab[2] <= MaxSyms}}

NameImages ==
    {Image(ValidIdent, <<>>,
           BaseShdrs \o <<DynsymShdr("SHT_DYNSYM", NamedTable("STT_FUNC", t[1])),
                          SymtabShdr("SHT_SYMTAB", NamedTable("STT_OBJECT", t[2]))>>,
           ShstrtabIndex) :
        t \in NameTablePairs}
    \cup
    UNION {{Image(ValidIdent, <<>>,
                  BaseShdrs \o <<DynsymShdr("SHT_DYNSYM", NamedTable("STT_FUNC", t[1])),
                                 SymtabShdr("SHT_SYMTAB", NamedTable("STT_OBJECT", t[2])),
                                 HashShdr(HashTable(t[1], order, nbucket))>>,
                  ShstrtabIndex) :
              order \in Perms(Len(t[1])), nbucket \in 1..MaxBuckets} :
           t \in NameTablePairs}

InitName ==
    /\ io \in NameImages
    /\ ElfFresh
    /\ CanalIdle

NextName == Construct \/ CallHashFindSymbol \/ CallLinearSymSearch \/ CallFindSymbolByName

SpecName == InitName /\ [][NextName]_vars

(***************************************************************************)
(* What the claims about the lookups by name speak of.                     *)
(***************************************************************************)
\* The entries of the section of that name and type (none without it).
TypedEntries(name, type) ==
    IF name \in DOMAIN namedSection
       /\ sectionHeaders[namedSection[name] + 1].sh_type = type
    THEN sectionHeaders[namedSection[name] + 1].data
    ELSE <<>>

DynsymEntries == TypedEntries(".dynsym", "SHT_DYNSYM")
SymtabEntries == TypedEntries(".symtab", "SHT_SYMTAB")

NamesOf(entries) == {entries[i].st_name : i \in DOMAIN entries}

\* The names of the entries of .dynsym other than the null entry.
DynsymSymbolNames == {DynsymEntries[i].st_name : i \in DOMAIN DynsymEntries \ {1}}

(***************************************************************************)
(* C3 (as stated).  For every name of an entry of .dynsym, the lookup      *)
(* through .hash and the linear scan of .dynsym both succeed and yield the *)
(* same entry, also when several entries carry the name.  (Stated for the  *)
(* names other than the null entry's empty name: it fails for these        *)
(* already.)                                                               *)
(***************************************************************************)
C3_HashAndLinearYieldSameEntry ==
    (last.op = "hashFindSymbol" /\ last.name \in DynsymSymbolNames /\ last.name # <<>>) =>
        LET linear == linearSymSearch(getSection(".dynsym", "SHT_DYNSYM"), last.name)
        IN  /\ last.res.ret
            /\ linear.ret
            /\ last.res.sym = linear.sym

(***************************************************************************)
(* C3 (amended).  With a .hash section that chains every entry of .dynsym  *)
(* but the null entry under bucket elf_hash(name) % nbucket, for every     *)
(* name of such an entry the lookup through .hash and the linear scan of   *)
(* .dynsym both succeed and each yields an entry of .dynsym of that name;  *)
(* they yield the same entry when one entry of .dynsym alone carries the   *)
(* name.                                                                   *)
(***************************************************************************)
C3_HashAndLinearAgreeOnUniqueNames ==
    (last.op = "hashFindSymbol" /\ last.name \in DynsymSymbolNames) =>
        LET linear == linearSymSearch(getSection(".dynsym", "SHT_DYNSYM"), last.name)
            carriers == {i \in DOMAIN DynsymEntries : DynsymEntries[i].st_name = last.name}
        IN  /\ last.res.ret
            /\ linear.ret
            /\ last.res.sym \in {DynsymEntries[i] : i \in carriers}
            /\ linear.sym \in {DynsymEntries[i] : i \in carriers}
            /\ Cardinality(carriers) = 1 => last.res.sym = linear.sym

\* The name is found through a chain of two symbols, behind a symbol of
\* another name.
C3_Witness ==
    /\ last.op = "hashFindSymbol"
    /\ last.name \in DynsymSymbolNames
    /\ last.res.ret
    /\ LET tab == HashSection.data
           head == tab.buckets[(elf_hash(last.name) % tab.nbucket) + 1]
       IN  /\ head # 0
           /\ DynsymEntries[head + 1].st_name # last.name
           /\ last.res.sym = DynsymEntries[tab.chains[head + 1] + 1]

(***************************************************************************)
(* C8.  findSymbolByName(name) returns true with an entry named name for   *)
(* every name that occurs in .dynsym or in .symtab, with or without the    *)
(* hash accelerator; the entry comes from .dynsym when .dynsym holds the   *)
(* name, and from .symtab otherwise.                                       *)
(***************************************************************************)
C8_NameFoundDynsymFirst ==
    (/\ last.op = "findSymbolByName"
     /\ last.name \in NamesOf(DynsymEntries) \cup NamesOf(SymtabEntries)) =>
        /\ last.res.ret
        /\ last.res.sym.st_name = last.name
        /\ IF last.name \in NamesOf(DynsymEntries)
           THEN last.res.sym \in Range(DynsymEntries)
           ELSE last.res.sym \in Range(SymtabEntries)

\* With a .hash section present, a name that only .symtab holds is found.
C8_Witness ==
    /\ last.op = "findSymbolByName"
    /\ hash
    /\ last.name # <<>>
    /\ DynsymSymbolNames # {}
    /\ last.name \notin NamesOf(DynsymEntries)
    /\ last.name \in NamesOf(SymtabEntries)
    /\ last.res.ret
    /\ last.res.sym \in Range(SymtabEntries)

(***************************************************************************)
(* ElfObject::getSection as an operation.                                  *)
(***************************************************************************)
SectionNameSet == {".symtab", ".debug_info", ".gnu_debuglink", ".strtab"}
SectionTypeSet == {"SHT_NULL", "SHT_PROGBITS", "SHT_SYMTAB"}

CallGetSection ==
    /\ Ready
    /\ \E name \in SectionNameSet, type \in SectionTypeSet :
          last' = [op |-> "getSection", name |-> name, type |-> type,
                   res |-> getSection(name, type)]
    /\ UNCHANGED <<io, debugfs, elf, programHeaders, sectionHeaders, namedSection, hash>>
    /\ UNCHANGED canalVars

(***************************************************************************)
(* Images for getSection: the image may carry a .gnu_debuglink section, a  *)
(* .symtab (with symbols, or SHT_NOBITS) and a .debug_info section, and    *)
(* the debug prefix may hold a file for the link that opens and parses,    *)
(* with a .symtab and a .debug_info of its own.                            *)
(***************************************************************************)
DebuglinkShdr == Shdr(".gnu_debuglink", "SHT_PROGBITS", FALSE, 0, <<>>)
DebugInfoShdr == Shdr(".debug_info", "SHT_PROGBITS", FALSE, 0, <<>>)

\* Every way to take, in order, at most one header from each of the sets.
RECURSIVE Layouts(_)
Layouts(sets) ==
    IF sets = <<>> THEN {<<>>}
    ELSE LET rest == Layouts(Tail(sets))
         IN  rest \cup {<<h>> \o r : h \in Head(sets), r \in rest}

SectImages ==
    {Image(ValidIdent, <<>>, BaseShdrs \o extra, ss) :
        extra \in Layouts(<<{DebuglinkShdr},
                            {SymtabShdr("SHT_SYMTAB", <<NullSym>>),
                             SymtabShdr("SHT_NOBITS", <<>>)},
                            {DebugInfoShdr}>>),
        ss \in {0, ShstrtabIndex}}

DebugFiles ==
    {NoDebugFile} \cup
    {[present |-> TRUE, shdrs |-> BaseShdrs \o extra] :
        extra \in Layouts(<<{SymtabShdr("SHT_SYMTAB", <<NullSym>>)}, {DebugInfoShdr}>>)}

InitSect ==
    /\ io \in SectImages
    /\ debugfs \in DebugFiles
    /\ elf = "new"
    /\ programHeaders = <<>>
    /\ sectionHeaders = <<>>
    /\ namedSection = <<>>
    /\ hash = FALSE
    /\ last = NoCall
    /\ CanalIdle

NextSect == Construct \/ CallGetSection

SpecSect == InitSect /\ [][NextSect]_vars

(***************************************************************************)
(* C9.  For an image with a .gnu_debuglink section whose file under the    *)
(* debug prefix opens and parses, getSection(name, type) returns the       *)
(* companion's section whenever the companion has a section of that name   *)
(* and of the requested type (or the type is the wildcard SHT_NULL), and   *)
(* the image's own section only when the companion has none.               *)
(***************************************************************************)
C9_CompanionSectionPreferred ==
    (/\ last.op = "getSection"
     /\ LocalSection("image", sectionHeaders, namedSection,
                     ".gnu_debuglink", "SHT_PROGBITS").found
     /\ debugfs.present) =>
        LET companion == LocalSection("debug", debugfs.shdrs, NameMap(debugfs.shdrs),
                                      last.name, last.type)
        IN  IF companion.found
            THEN last.res = companion
            ELSE last.res = LocalSection("image", sectionHeaders, namedSection,
                                         last.name, last.type)

(***************************************************************************)
(* canal (src/unnamed/part_000): the vtable scanner.                       *)
(* Strings are sequences of character codes; 0 is the terminating NUL.     *)
(***************************************************************************)
Star == 42

\* default_pattern "_ZTV*" (part_000 81).
default_pattern == <<95, 90, 84, 86, Star>>

\* The character at 1-based position i of a C string: the NUL ends it.
CharAt(str, i) == IF i <= Len(str) THEN str[i] ELSE 0

(***************************************************************************)
(* globmatchR (part_000 17-38) from position pi of the pattern and ni of   *)
(* the name: the set of values the call can return.  Position Len + 1 is   *)
(* the NUL; a read of the name beyond it is a read outside the string,     *)
(* whose value is not defined: the call can then return either value.      *)
(***************************************************************************)
RECURSIVE GlobR(_, _, _, _)
RECURSIVE GlobStar(_, _, _, _)
GlobStar(pattern, pi, name, ni) ==
    LET n1 == ni + 1
        r == GlobR(pattern, pi + 1, name, n1)
    IN  (IF 1 \in r THEN {1} ELSE {})
        \cup
        (IF 0 \in r
         THEN IF n1 > Len(name) + 1 THEN {0, 1}
              ELSE IF CharAt(name, n1) = 0 THEN {0}
              ELSE GlobStar(pattern, pi, name, n1)
         ELSE {})

GlobR(pattern, pi, name, ni) ==
    IF CharAt(pattern, pi) = Star
    THEN GlobStar(pattern, pi, name, ni)
    ELSE IF ni > Len(name) + 1 THEN {0, 1}
    ELSE IF CharAt(name, ni) # CharAt(pattern, pi) THEN {0}
    ELSE IF CharAt(pattern, pi) = 0 THEN {1}
    ELSE GlobR(pattern, pi + 1, name, ni + 1)

\* globmatch (part_000 40-44).
globmatch(pattern, name) == GlobR(pattern, 1, name, 1)

\* Whether globmatchR from pi and ni reads the name beyond its NUL.  The
\* call is deterministic up to its first such read.
RECURSIVE PastR(_, _, _, _)
RECURSIVE PastStar(_, _, _, _)
PastStar(pattern, pi, name, ni) ==
    LET n1 == ni + 1
    IN  IF PastR(pattern, pi + 1, name, n1) THEN TRUE
        ELSE IF GlobR(pattern, pi + 1, name, n1) = {1} THEN FALSE
        ELSE IF n1 > Len(name) + 1 THEN TRUE
        ELSE IF CharAt(name, n1) = 0 THEN FALSE
        ELSE PastStar(pattern, pi, name, n1)

PastR(pattern, pi, name, ni) ==
    IF CharAt(pattern, pi) = Star
    THEN PastStar(pattern, pi, name, ni)
    ELSE IF ni > Len(name) + 1 THEN TRUE
    ELSE IF CharAt(name, ni) # CharAt(pattern, pi) THEN FALSE
    ELSE IF CharAt(pattern, pi) = 0 THEN FALSE
    ELSE PastR(pattern, pi + 1, name, ni + 1)

\* Whether globmatch(pattern, name) reads beyond the NUL of name.
ReadsPastNul(pattern, name) == PastR(pattern, 1, name, 1)

(***************************************************************************)
(* ListedSymbol (part_000 47-67).                                          *)
(***************************************************************************)
ListedSymbol(sym, objbase, name, object) ==
    [sym |-> sym, objbase |-> objbase, objname |-> object, count |-> 0, name |-> name]

memaddr(l) == l.sym.st_value + l.objbase

\* The place of a symbol no pattern retained.
NotListed == [count |-> -1]

\* operator < (const ListedSymbol &, Elf_Off) (part_000 65-67).
ListedLess(l, addr) == memaddr(l) + l.sym.st_size < addr

\* std::lower_bound(listed.begin(), listed.end(), p) with that operator:
\* the halving search over [first, first + len) (1-based positions).
RECURSIVE LowerBound(_, _, _, _)
LowerBound(v, first, len, p) ==
    IF len = 0 THEN first
    ELSE LET half == len \div 2
             middle == first + half
         IN  IF ListedLess(v[middle], p)
             THEN LowerBound(v, middle + 1, len - half - 1, p)
             ELSE LowerBound(v, first, half, p)

lower_bound(v, p) == LowerBound(v, 1, Len(v), p)

(***************************************************************************)
(* The command line.  An option is <<letter>> or <<letter, argument>>;     *)
(* "x" is a letter getopt does not know ('?', which the switch ignores).   *)
(* The argument of -f and -e is the number strtoll makes of it.            *)
(* -v only writes to clog and -S takes the string search instead of the    *)
(* page sweep: command lines with them are not generated.                  *)
(***************************************************************************)
RefValues == {0, 4, MaxWord + 1}

Patterns == {<<Star>>, <<109, Star>>}

OptionSet ==
    {<<"h">>, <<"s">>, <<"x">>}
    \cup {<<"f", v>> : v \in RefValues}
    \cup {<<"e", v>> : v \in RefValues}
    \cup {<<"p", pat>> : pat \in Patterns}

NoOptions == [findRef |-> FALSE, minval |-> 0, maxval |-> 0, showaddrs |-> FALSE,
              virtpatterns |-> <<>>]

\* The getopt loop (part_000 102-137) over the options from position k on:
\* "abort" for -e without -f, "help" for -h, else the settings.
RECURSIVE Getopt(_, _, _)
Getopt(options, k, o) ==
    IF k > Len(options) THEN [end |-> "parsed", o |-> o]
    ELSE LET c == options[k]
         IN  CASE c[1] = "p" ->
                     Getopt(options, k + 1,
                            [o EXCEPT !.virtpatterns = Append(o.virtpatterns, c[2])])
               [] c[1] = "s" -> Getopt(options, k + 1, [o EXCEPT !.showaddrs = TRUE])
               [] c[1] = "h" -> [end |-> "help", o |-> o]
               [] c[1] = "f" ->
                     Getopt(options, k + 1,
                            [o EXCEPT !.findRef = TRUE, !.minval = c[2], !.maxval = c[2]])
               [] c[1] = "e" ->
                     IF ~o.findRef THEN [end |-> "abort", o |-> o]
                     ELSE Getopt(options, k + 1, [o EXCEPT !.maxval = c[2]])
               [] OTHER -> Getopt(options, k + 1, o)

\* sizeof (void *) and getpagesize(), in bytes.
WordSize == 8
pagesize == PageWords * WordSize

NoHdr == [p_type |-> "none", p_vaddr |-> 0, p_filesz |-> 0]
Idle == [process |-> FALSE, nseg |-> 0, loc |-> 0, i |-> 0, p |-> 0]

\* main's return of mainExcept's value, and its catch clause (part_000
\* 251-261): "return -1" is exit status 255.
ExitCaught == 255

Exit(code) ==
    /\ pc' = "done"
    /\ status' = code

\* mainExcept, lines 102-137 (and "return 0" of -h, abort() of -e).
ParseOptions ==
    /\ pc = "getopt"
    /\ LET g == Getopt(args.options, 1, NoOptions)
       IN  /\ opt' = g.o
           /\ IF g.end = "abort" THEN Exit("SIGABRT")
              ELSE IF g.end = "help" THEN Exit(0)
              ELSE pc' = "open" /\ UNCHANGED status
    /\ args' = [args EXCEPT !.options = <<>>]
    /\ UNCHANGED <<listed, seg, cur, out>>
    /\ UNCHANGED elfVars

\* mainExcept, lines 139-149: the executable and the core are opened; the
\* constructors throw when a file cannot be opened.  Without a positional
\* argument process stays null.
OpenFiles ==
    /\ pc = "open"
    /\ \E opened \in BOOLEAN :
          IF args.npos >= 1 /\ ~opened
          THEN Exit(ExitCaught) /\ UNCHANGED cur
          ELSE /\ pc' = "load"
               /\ cur' = [cur EXCEPT !.process = args.npos >= 1]
               /\ UNCHANGED status
    /\ args' = [args EXCEPT !.npos = 0]
    /\ UNCHANGED <<opt, listed, seg, out>>
    /\ UNCHANGED elfVars

\* The symbols of one table a pattern retains, each with the values the
\* match can return (part_000 163-173).
Retains(patterns, name) ==
    \* the set of outcomes (TRUE: retained) of the loop over the patterns
    LET RECURSIVE From(_)
        From(k) ==
            IF k > Len(patterns) THEN {FALSE}
            ELSE (IF 1 \in globmatch(patterns[k], name) THEN {TRUE} ELSE {})
                 \cup (IF 0 \in globmatch(patterns[k], name) THEN From(k + 1) ELSE {})
    IN  From(1)

\* The orders std::sort can leave v in when element k compares by
\* keys[k] ("less" is keys[l] < keys[r]): equal keys in any order.
SortedBy(v, keys) ==
    {[i \in DOMAIN v |-> v[f[i]]] : f \in
        {g \in Perms(Len(v)) : \A i, j \in DOMAIN v : i < j => keys[g[i]] <= keys[g[j]]}}

\* The symbols that were retained, in the order they were pushed.
Pushed(v) == SelectSeq(v, LAMBDA l : l # NotListed)

ScanNames == {<<95, 90, 84, 86, 49, 67>>, <<109>>}

ScanSyms == [name : ScanNames, st_value : 0..MaxSymValue, st_size : 0..MaxSymSize]

\* The loaded object: its relocation and the symbols of its .dynsym and
\* .symtab (at most one in each).
LoadedObjects ==
    [reloc : {1}, dynsym : SeqUpTo(ScanSyms, 1), symtab : SeqUpTo(ScanSyms, 1)]

\* mainExcept, lines 150-180: load(), the collection of the symbols that
\* match a pattern, and the sort by address.  process->load() on a null
\* process is undefined: the build crashes on the null pointer or aborts on
\* the library's assertion.
LoadAndCollect ==
    /\ pc = "load"
    /\ IF ~cur.process
       THEN /\ \E sig \in {"SIGSEGV", "SIGABRT"} : Exit(sig)
            /\ UNCHANGED <<opt, listed>>
       ELSE \E loaded \in BOOLEAN :
               IF ~loaded
               THEN Exit(ExitCaught) /\ UNCHANGED <<opt, listed>>
               ELSE /\ opt' = IF opt.virtpatterns = <<>>
                               THEN [opt EXCEPT !.virtpatterns = <<default_pattern>>]
                               ELSE opt
                    /\ \E object \in LoadedObjects :
                          LET all == object.dynsym \o object.symtab
                          IN  \E keep \in [DOMAIN all -> BOOLEAN] :
                                /\ \A k \in DOMAIN all :
                                      keep[k] \in Retains(opt'.virtpatterns, all[k].name)
                                /\ LET v == Pushed(
                                               [k \in DOMAIN all |->
                                                   IF keep[k]
                                                   THEN ListedSymbol(
                                                            [st_value |-> all[k].st_value,
                                                             st_size |-> all[k].st_size],
                                                            object.reloc, all[k].name, "a.out")
                                                   ELSE NotListed])
                                   IN  listed' \in
                                           SortedBy(v, [k \in DOMAIN v |-> memaddr(v[k])])
                    /\ pc' = "segment"
                    /\ UNCHANGED status
    /\ UNCHANGED <<args, seg, cur, out>>
    /\ UNCHANGED elfVars

\* The program headers a core can hold: one that is not PT_LOAD, and
\* PT_LOAD headers of zero to more than one page, one of them not
\* page-aligned.
FileSizes == {0, WordSize, pagesize, pagesize + WordSize}

CoreSegments ==
    {[p_type |-> "PT_NOTE", p_vaddr |-> 0, p_filesz |-> WordSize]}
    \cup {[p_type |-> "PT_LOAD", p_vaddr |-> v, p_filesz |-> f] :
              v \in {0, pagesize}, f \in FileSizes}
    \cup {[p_type |-> "PT_LOAD", p_vaddr |-> WordSize, p_filesz |-> WordSize]}

\* The sort by count and the report (part_000 238-247): a line for every
\* symbol with a count.
Report(v) ==
    LET RECURSIVE From(_)
        From(k) ==
            IF k > Len(v) THEN <<>>
            ELSE (IF v[k].count # 0
                  THEN <<[count |-> v[k].count, name |-> v[k].name,
                          objname |-> v[k].objname]>>
                  ELSE <<>>) \o From(k + 1)
    IN  From(1)

\* The head of the loop over the segments (part_000 185-213): the next
\* header of the core, skipped unless PT_LOAD, asserted page-aligned; after
\* the last one, the report and "return 0".
NextSegment ==
    /\ pc = "segment"
    /\ \/ /\ listed' \in SortedBy(listed, [k \in DOMAIN listed |-> 0 - listed[k].count])
          /\ out' = Report(listed')
          /\ Exit(0)
          /\ UNCHANGED <<seg, cur>>
       \/ /\ cur.nseg < MaxSegs
          /\ \E h \in CoreSegments :
                /\ seg' = h
                /\ IF h.p_type # "PT_LOAD" \/ (h.p_vaddr % pagesize = 0 /\ h.p_filesz = 0)
                   THEN /\ cur' = [cur EXCEPT !.nseg = @ + 1]
                        /\ UNCHANGED <<pc, status>>
                   ELSE IF h.p_vaddr % pagesize # 0
                   THEN /\ Exit("SIGABRT")
                        /\ UNCHANGED cur
                   ELSE /\ cur' = [cur EXCEPT !.nseg = @ + 1, !.loc = h.p_vaddr, !.i = 0]
                        /\ pc' = "page"
                        /\ UNCHANGED status
          /\ out' = <<>>
          /\ UNCHANGED listed
    /\ UNCHANGED <<args, opt>>
    /\ UNCHANGED elfVars

\* process->io->readObj(loc, page, pagesize) (part_000 216): a whole page
\* is read.  The bytes of the file part are there; beyond it the reader
\* supplies what the address space holds there, or throws when it holds
\* nothing.
ReadPage ==
    /\ pc = "page"
    /\ \E supplied \in BOOLEAN :
          IF ~supplied /\ cur.loc + pagesize > seg.p_vaddr + seg.p_filesz
          THEN Exit(ExitCaught) /\ UNCHANGED cur
          ELSE /\ pc' = "word"
               /\ cur' = [cur EXCEPT !.i = 0]
               /\ UNCHANGED status
    /\ out' = <<>>
    /\ UNCHANGED <<args, opt, listed, seg>>
    /\ UNCHANGED elfVars

\* The address of word i of the page at loc.
WordAddress(loc, i) == loc + i * WordSize

\* The address the -f branch prints for word i of the page at loc
\* (part_000 221).
RefAddress(loc, i) == loc

\* The -f test of a word (part_000 220).
IsRef(p, o) == p >= o.minval /\ p < o.maxval /\ p % 4 = 0

\* The test of a word against the symbol lower_bound found (part_000
\* 224-225).
IsHit(v, found, p) ==
    /\ found <= Len(v)
    /\ memaddr(v[found]) <= p
    /\ memaddr(v[found]) + v[found].sym.st_size > p

\* After word i of the page at loc: the next word, the next page, or the
\* next segment (the for statements of part_000 213 and 218).
Advance ==
    IF cur.i + 1 < PageWords
    THEN [pc |-> "word", loc |-> cur.loc, i |-> cur.i + 1]
    ELSE IF cur.loc + pagesize < seg.p_vaddr + seg.p_filesz
    THEN [pc |-> "page", loc |-> cur.loc + pagesize, i |-> 0]
    ELSE [pc |-> "segment", loc |-> cur.loc + pagesize, i |-> 0]

\* One pass of the loop over the words of the page (part_000 218-230) for
\* the word p the page holds at index i.
SweepWord ==
    /\ pc = "word"
    /\ \E p \in 0..MaxWord :
          /\ IF opt.findRef
             THEN /\ out' = IF IsRef(p, opt) THEN <<RefAddress(cur.loc, cur.i)>> ELSE <<>>
                  /\ UNCHANGED listed
             ELSE LET found == lower_bound(listed, p)
                  IN  IF IsHit(listed, found, p)
                      THEN /\ out' = IF opt.showaddrs
                                      THEN <<[name |-> listed[found].name,
                                              off |-> p - memaddr(listed[found]),
                                              addr |-> WordAddress(cur.loc, cur.i)]>>
                                      ELSE <<>>
                           /\ listed' = [listed EXCEPT ![found].count = @ + 1]
                      ELSE /\ out' = <<>>
                           /\ UNCHANGED listed
          /\ cur' = [cur EXCEPT !.p = p, !.loc = Advance.loc, !.i = Advance.i]
    /\ pc' = Advance.pc
    /\ UNCHANGED <<args, opt, seg, status>>
    /\ UNCHANGED elfVars

\* The command lines: options and the number of positional arguments.
CommandLines == [options : SeqUpTo(OptionSet, MaxOpts), npos : 0..2]

InitScan ==
    /\ ElfFresh
    /\ io = Image("ELF", <<>>, <<>>, 0)
    /\ pc = "getopt"
    /\ args \in CommandLines
    /\ opt = NoOptions
    /\ listed = <<>>
    /\ seg = NoHdr
    /\ cur = Idle
    /\ out = <<>>
    /\ status = "running"

NextScan ==
    \/ ParseOptions
    \/ OpenFiles
    \/ LoadAndCollect
    \/ NextSegment
    \/ ReadPage
    \/ SweepWord

SpecScan == InitScan /\ [][NextScan]_vars

(***************************************************************************)
(* Claims about the scanner.                                               *)
(***************************************************************************)

\* The entries of v with the greatest address that is <= w.
Candidates(v, w) ==
    {k \in DOMAIN v :
        /\ memaddr(v[k]) <= w
        /\ \A j \in DOMAIN v : memaddr(v[j]) <= w => memaddr(v[j]) <= memaddr(v[k])}

\* C5: in the vtable sweep, for every scanned word w, with c the entry of
\* the address-sorted list with the greatest address <= w (taken where that
\* entry is unique): the counter of c goes up by exactly one iff c exists
\* and address(c) + st_size(c) > w, and no other counter changes; also
\* when another symbol ends exactly at w just before c starts at w.
C5_CandidateCounted ==
    [][(pc = "word" /\ ~opt.findRef /\ Cardinality(Candidates(listed, cur'.p)) <= 1)
        => LET w == cur'.p
               cs == Candidates(listed, w)
           IN  IF \E c \in cs : memaddr(listed[c]) + listed[c].sym.st_size > w
               THEN \E c \in cs : listed' = [listed EXCEPT ![c].count = @ + 1]
               ELSE listed' = listed]_vars

\* C6: in reference-search mode, for every scanned word whose value v has
\* min <= v < max and v % 4 = 0 the scanner writes exactly one line, the
\* address the word is stored at (chunk address plus the word's byte
\* offset in the chunk), and it writes no line for any other word.
C6_RefLineGivesWordAddress ==
    [][(pc = "word" /\ opt.findRef)
        => out' = IF opt.minval <= cur'.p /\ cur'.p < opt.maxval /\ cur'.p % 4 = 0
                  THEN <<cur.loc + cur.i * WordSize>>
                  ELSE <<>>]_vars

\* C10: the exit status is 0 when the scan completes, 1 when opening or
\* parsing the executable or the core fails (any exception raised while
\* running), and 2 when there is no core/pid positional argument; these
\* cases end in no other status and in no abnormal termination.
C10_ExitStatus ==
    [][/\ (pc = "open" /\ pc' = "done") => status' = 1
       /\ (pc = "load" /\ cur.process /\ pc' = "done") => status' = 1
       /\ (pc = "page" /\ pc' = "done") => status' = 1
       /\ (pc = "load" /\ ~cur.process) => (pc' = "done" /\ status' = 2)
       /\ (pc = "segment" /\ pc' = "done" /\ seg' = seg) => status' = 0]_vars

\* C11: in the page sweep of a page-aligned PT_LOAD segment whose pages
\* are all read, every word examined is stored inside
\* [p_vaddr, p_vaddr + p_filesz), and every pointer-aligned address of the
\* interval is examined exactly once, in order from p_vaddr on; also when
\* p_filesz is not a multiple of the page size.
C11_SweepWithinFilePart ==
    [][/\ (pc = "word") =>
             /\ seg.p_vaddr <= WordAddress(cur.loc, cur.i)
             /\ WordAddress(cur.loc, cur.i) < seg.p_vaddr + seg.p_filesz
       /\ (pc = "segment" /\ pc' = "page") => cur'.loc = seg'.p_vaddr
       /\ (pc = "word" /\ pc' \in {"word", "page"}) =>
             WordAddress(cur'.loc, cur'.i) = WordAddress(cur.loc, cur.i) + WordSize
       /\ (pc = "word" /\ pc' = "segment") =>
             WordAddress(cur.loc, cur.i) + WordSize >= seg.p_vaddr + seg.p_filesz]_vars

(***************************************************************************)
(* globmatch on its own: one call on a pattern and a name.                 *)
(***************************************************************************)
GlobChars == {97, 98}

GlobPatterns == SeqUpTo(GlobChars \cup {Star}, MaxPat) \cup {default_pattern}

GlobNames ==
    SeqUpTo(GlobChars, MaxName) \cup {<<95, 90, 84, 86>>, <<95, 90, 84, 86, 49, 67>>}

\* The call globmatch(virtpattern, sym.second) of part_000 165: its value,
\* and whether it read beyond the NUL of the name.
CallGlobmatch ==
    /\ pc = "glob"
    /\ \E ret \in globmatch(args.pattern, args.name) :
          out' = <<[ret |-> ret, past |-> ReadsPastNul(args.pattern, args.name)]>>
    /\ pc' = "matched"
    /\ UNCHANGED <<args, opt, listed, seg, cur, status>>
    /\ UNCHANGED elfVars

InitGlob ==
    /\ ElfFresh
    /\ io = Image("ELF", <<>>, <<>>, 0)
    /\ pc = "glob"
    /\ args \in [pattern : GlobPatterns, name : GlobNames]
    /\ opt = NoOptions
    /\ listed = <<>>
    /\ seg = NoHdr
    /\ cur = Idle
    /\ out = <<>>
    /\ status = "running"

NextGlob == CallGlobmatch

SpecGlob == InitGlob /\ [][NextGlob]_vars

\* Glob semantics: '*' matches any sequence of zero or more characters,
\* every other pattern character matches only itself.
RECURSIVE RefMatch(_, _, _, _)
RefMatch(pattern, pi, name, ni) ==
    IF pi > Len(pattern) THEN ni > Len(name)
    ELSE IF pattern[pi] = Star
    THEN \E k \in ni..(Len(name) + 1) : RefMatch(pattern, pi + 1, name, k)
    ELSE /\ ni <= Len(name)
         /\ name[ni] = pattern[pi]
         /\ RefMatch(pattern, pi + 1, name, ni + 1)

\* C12: globmatch(pattern, name) agrees with glob semantics for every
\* pattern and name, also where '*' must match the empty string, and it
\* never reads past the terminating NUL of name.
C12_GlobmatchIsGlob ==
    pc = "matched" =>
        /\ out[1].ret = (IF RefMatch(args.pattern, 1, args.name, 1) THEN 1 ELSE 0)
        /\ ~out[1].past

====
